---- MODULE Spec2Model ----
(***************************************************************************)
(* Device registry and message router of the parental-control backend     *)
(* (src/unnamed/part_000, the registry-based server).                      *)
(*                                                                         *)
(* State: the `devices` Map, the sockets the server has accepted, the      *)
(* server clock, and the messages the last handler run handed to the       *)
(* transport.  One action per socket.io handler; a handler runs to         *)
(* completion on the Node event loop, so each action is one atomic step,   *)
(* and the loop hands the emitted packets to the sockets (Flush) before    *)
(* it runs the next handler.                                               *)
(***************************************************************************)
EXTENDS Integers, Sequences, FiniteSets, TLC

\* ---------------------------------------------------------------- bounds
MaxConns == 3          \* sockets accepted during one run
MaxTime  == 1          \* last value of the server clock
MaxEvents == 3         \* events the clients queue during one run

\* ------------------------------------------------------- JavaScript values
Undefined == "<undefined>"      \* JS undefined (absent query field / argument)
Null      == "<null>"           \* JS null
NoTime    == -1                 \* a Date field that has not been assigned

\* what a dashboard shows before its first device_list_update
NoRoster == <<[key |-> "<no roster>",
               val |-> [socketId |-> 0, name |-> "-",
                        connectedAt |-> NoTime, lastSeen |-> NoTime]]>>

Conns     == 1..MaxConns        \* socket.id values, in order of acceptance
Types     == {"device", "admin", Undefined}     \* handshake.query.type
DeviceIds == {"d1", "d2", "", Undefined}        \* handshake.query.deviceId
Names     == {"Pixel", Undefined}               \* handshake.query.name
TargetIds == {"d1", "d2", "", Undefined}        \* targetId argument of a command
Configs   == {"cfg", Undefined}                 \* config field of update_config
Chunks    == {"chunk"}                          \* media payloads

\* JS truthiness of the values above: undefined, null and '' are falsy
Falsy(x)  == x \in {Undefined, Null, ""}
Truthy(x) == ~Falsy(x)

VARIABLES
    conns,      \* socket id -> [state, role, deviceId]: the handler closures
    devices,    \* the `devices` Map, as its entries in insertion order
    now,        \* the server clock read by new Date()
    sent,       \* emissions of the last handler run, in order
    last,       \* the event the last handler run processed
    crashed,    \* an exception escaped a handler: the process is gone
    inbox,      \* socket id -> events received from it, not yet dispatched
    outbox,     \* socket id -> packets written to it so far, oldest first
    dashboard   \* socket id -> the roster a dashboard on it received last

vars == <<conns, devices, now, sent, last, crashed, inbox, outbox, dashboard>>

\* ------------------------------------------------------------ Map helpers
\* A JS Map keeps one entry per key, in insertion order; set() on an existing
\* key replaces the value in place, delete() removes the entry.
KeyIndexes(m, k) == {i \in 1..Len(m) : m[i].key = k}

MapHas(m, k) == KeyIndexes(m, k) # {}

MapGet(m, k) == m[CHOOSE i \in KeyIndexes(m, k) : TRUE].val

\* set() that never looks for the key
MapSetAppend(m, k, v) == Append(m, [key |-> k, val |-> v])

\* set() that keeps the value of a key that is already there
MapSetIfAbsent(m, k, v) ==
    IF MapHas(m, k) THEN m ELSE Append(m, [key |-> k, val |-> v])

MapSet(m, k, v) ==
    IF MapHas(m, k)
    THEN [i \in 1..Len(m) |-> IF m[i].key = k THEN [key |-> k, val |-> v] ELSE m[i]]
    ELSE Append(m, [key |-> k, val |-> v])

\* delete() that misses the key
MapDeleteNothing(m, k) == m

MapDelete(m, k) == SelectSeq(m, LAMBDA e : e.key # k)

\* Array.from(devices.entries())
Entries(m) == m

\* ------------------------------------------------------------- transport
OpenConns == {c \in Conns : conns[c].state = "open"}

\* one emit call: event name, payload and the sockets it is delivered to
Emission(ev, data, to) == [event |-> ev, data |-> data, to |-> to]

\* socket.emit where socket.broadcast.emit was meant
BroadcastEmitSelf(c, ev, data) == [event |-> ev, data |-> data, to |-> {c}]

\* socket.broadcast.emit: every connected socket except the sender
BroadcastEmit(c, ev, data) == Emission(ev, data, OpenConns \ {c})

\* io.emit where socket.emit was meant
SocketEmitAll(c, ev, data) ==
    [event |-> ev, data |-> data, to |-> OpenConns \cup {c}]

\* socket.emit: the socket itself
SocketEmit(c, ev, data) == Emission(ev, data, {c})

\* io.emit: every connected socket
IoEmit(ev, data) == Emission(ev, data, OpenConns)

\* ------------------------------------------------------------------ Init
NewConn    == [state |-> "new",    role |-> "-", deviceId |-> "-"]
ClosedConn == [state |-> "closed", role |-> "-", deviceId |-> "-"]

\* nothing is being processed: the event loop is between two handler runs
IdleLast == [op |-> "idle", conn |-> 0, arg |-> Undefined]

Idle == ~crashed /\ last = IdleLast

Init ==
    /\ conns = [c \in Conns |-> NewConn]
    /\ devices = <<>>
    /\ now = 0
    /\ sent = <<>>
    /\ last = IdleLast
    /\ crashed = FALSE
    /\ inbox = [c \in Conns |-> [count |-> 0, queue |-> <<>>]]
    /\ outbox = [c \in Conns |-> <<>>]
    /\ dashboard = [c \in Conns |-> NoRoster]

\* the next socket the transport accepts
NextConn == CHOOSE c \in Conns :
    /\ conns[c].state = "new"
    /\ \A b \in Conns : conns[b].state = "new" => c <= b

\* --------------------------------------------------------------- actions
\* a device branch that notifies the dashboards before it stores the entry
ConnectDeviceNotifyFirst(c, deviceId, qname) ==
    LET name == IF Falsy(qname) THEN "Unknown Device" ELSE qname
        devs == MapSet(devices, deviceId,
                       [socketId |-> c, name |-> name,
                        connectedAt |-> now, lastSeen |-> NoTime])
    IN  /\ devices' = devs
        /\ conns' = [conns EXCEPT ![c] =
                        [state |-> "open", role |-> "device", deviceId |-> deviceId]]
        /\ sent' = <<BroadcastEmit(c, "device_list_update", Entries(devices))>>

\* io.on('connection'), device branch
ConnectDevice(c, deviceId, qname) ==
    LET name == IF Falsy(qname) THEN "Unknown Device" ELSE qname
        devs == MapSet(devices, deviceId,
                       [socketId |-> c, name |-> name,
                        connectedAt |-> now, lastSeen |-> NoTime])
    IN  /\ devices' = devs
        /\ conns' = [conns EXCEPT ![c] =
                        [state |-> "open", role |-> "device", deviceId |-> deviceId]]
        /\ sent' = <<BroadcastEmit(c, "device_list_update", Entries(devs))>>

\* a dashboard branch that enters the socket in the registry as well
ConnectAdminRegistered(c) ==
    LET devs == MapSet(devices, Undefined,
                       [socketId |-> c, name |-> "Unknown Device",
                        connectedAt |-> now, lastSeen |-> NoTime])
    IN  /\ devices' = devs
        /\ conns' = [conns EXCEPT ![c] =
                        [state |-> "open", role |-> "admin", deviceId |-> "-"]]
        /\ sent' = <<SocketEmit(c, "device_list_update", Entries(devs))>>

\* io.on('connection'), dashboard branch
ConnectAdmin(c) ==
    /\ devices' = devices
    /\ conns' = [conns EXCEPT ![c] =
                    [state |-> "open", role |-> "admin", deviceId |-> "-"]]
    /\ sent' = <<SocketEmit(c, "device_list_update", Entries(devices))>>

OnConnection ==
    /\ Idle
    /\ \E c \in Conns : conns[c].state = "new"
    /\ \E type \in Types, deviceId \in DeviceIds, qname \in Names :
        LET c == NextConn IN
        /\ IF type = "device"
           THEN ConnectDevice(c, deviceId, qname)
           ELSE /\ deviceId = Undefined /\ qname = Undefined
                /\ ConnectAdmin(c)
        /\ last' = [op |-> "connection", conn |-> c,
                    arg |-> [type |-> type, deviceId |-> deviceId, name |-> qname]]
    /\ UNCHANGED <<dashboard, inbox, outbox, now, crashed>>

\* socket.on('disconnect'), registered in either branch
OnDisconnect ==
    /\ Idle
    /\ \E c \in OpenConns :
        /\ IF conns[c].role = "device"
           THEN LET devs == MapDelete(devices, conns[c].deviceId) IN
                /\ devices' = devs
                /\ sent' = <<BroadcastEmit(c, "device_list_update", Entries(devs))>>
           ELSE /\ devices' = devices
                /\ sent' = <<>>
        /\ conns' = [conns EXCEPT ![c] = ClosedConn]
        /\ last' = [op |-> "disconnect", conn |-> c, arg |-> conns[c]]
    /\ UNCHANGED <<dashboard, inbox, outbox, now, crashed>>

\* the roster on the dashboard of socket c once the packets of the handler
\* have arrived: that of the last device_list_update among them, if any
Shown(c) ==
    LET hits == {i \in 1..Len(sent) :
                    sent[i].event = "device_list_update" /\ c \in sent[i].to}
    IN  IF c \notin OpenConns \/ conns[c].role = "device" THEN NoRoster
        ELSE IF hits = {} THEN dashboard[c]
        ELSE sent[CHOOSE i \in hits : \A j \in hits : j <= i].data

\* the handler has returned: its packets are written to the sockets and the
\* event loop is ready for the next event
Flush ==
    /\ ~crashed
    /\ last # IdleLast
    /\ sent' = <<>>
    /\ last' = IdleLast
    /\ dashboard' = [c \in Conns |-> Shown(c)]
    /\ UNCHANGED <<inbox, outbox, conns, devices, now, crashed>>

\* the wall clock advances between handler runs
Tick ==
    /\ Idle
    /\ now < MaxTime
    /\ now' = now + 1
    /\ UNCHANGED <<dashboard, inbox, outbox, conns, devices, sent, last, crashed>>

\* ------------------------------------------------------------ the router
\* getDeviceIdBySocketId: first key, in Map order, whose entry holds socketId
\* a lookup that returns the first registered id, whoever asks
getFirstDeviceId(socketId) ==
    IF devices = <<>> THEN Null ELSE devices[1].key

getDeviceIdBySocketId(socketId) ==
    LET hits == {i \in 1..Len(devices) : devices[i].val.socketId = socketId}
    IN  IF hits = {} THEN Null
        ELSE devices[CHOOSE i \in hits : \A j \in hits : i <= j].key

\* sendToDevice(targetId, event, data = null): io.to(device.socketId).emit.
\* A socket id is a non-empty string, so device.socketId is truthy whenever
\* the entry exists; the room of a socket id holds that socket while it is
\* connected.
\* a unicast to every socket that announced the id, registered or not
sendToDeviceRoom(targetId, event, data) ==
    IF MapHas(devices, targetId)
    THEN <<Emission(event, IF data = Undefined THEN Null ELSE data,
                    {c \in OpenConns : conns[c].deviceId = targetId})>>
    ELSE <<>>

sendToDevice(targetId, event, data) ==
    IF MapHas(devices, targetId)
    THEN <<Emission(event, IF data = Undefined THEN Null ELSE data,
                    {MapGet(devices, targetId).socketId} \cap OpenConns)>>
    ELSE <<>>

\* The command handlers that take the target id as their argument:
\* inbound event -> outbound event, and whether the handler has the
\* `else socket.broadcast.emit(...)` branch.
Cmd(out, fb) == [out |-> out, fallback |-> fb]

CommandTable ==
    [get_status             |-> Cmd("GET_STATUS", TRUE),
     start_monitoring       |-> Cmd("START_AUDIO", TRUE),
     stop_monitoring        |-> Cmd("STOP_AUDIO", TRUE),
     request_camera_start   |-> Cmd("REQUEST_CAMERA_START", FALSE),
     start_video            |-> Cmd("START_CAM", TRUE),
     stop_video             |-> Cmd("STOP_CAM", TRUE),
     switch_camera          |-> Cmd("SWITCH_CAM", TRUE),
     toggle_flash           |-> Cmd("TOGGLE_FLASH", TRUE),
     toggle_front_flash     |-> Cmd("TOGGLE_FRONT_FLASH", FALSE),
     toggle_back_flash      |-> Cmd("TOGGLE_BACK_FLASH", FALSE),
     hide_app               |-> Cmd("HIDE_APP", FALSE),
     show_app               |-> Cmd("SHOW_APP", FALSE),
     brightness_up          |-> Cmd("BRIGHTNESS_UP", TRUE),
     brightness_down        |-> Cmd("BRIGHTNESS_DOWN", TRUE),
     START_MANUAL_RECORDING |-> Cmd("START_MANUAL_RECORDING", FALSE),
     STOP_MANUAL_RECORDING  |-> Cmd("STOP_MANUAL_RECORDING", FALSE),
     get_config             |-> Cmd("GET_CONFIG", FALSE),
     get_storage_stats      |-> Cmd("GET_STORAGE_STATS", FALSE),
     hide_app_icon          |-> Cmd("HIDE_APP_ICON", FALSE),
     show_app_icon          |-> Cmd("SHOW_APP_ICON", FALSE),
     get_permissions        |-> Cmd("GET_PERMISSIONS", FALSE)]

CommandEvents == DOMAIN CommandTable

\* the fallback branch written with io.emit
RouteCommandAll(c, ev, targetId) ==
    IF Truthy(targetId)
    THEN sendToDevice(targetId, CommandTable[ev].out, Undefined)
    ELSE IF CommandTable[ev].fallback
         THEN <<IoEmit(CommandTable[ev].out, Undefined)>>
         ELSE <<>>

\* socket.on(<command>, (targetId) => ...)
RouteCommand(c, ev, targetId) ==
    IF Truthy(targetId)
    THEN sendToDevice(targetId, CommandTable[ev].out, Undefined)
    ELSE IF CommandTable[ev].fallback
         THEN <<BroadcastEmit(c, CommandTable[ev].out, Undefined)>>
         ELSE <<>>

OnCommand ==
    /\ Idle
    /\ \E c \in OpenConns, ev \in CommandEvents, targetId \in TargetIds :
        /\ sent' = RouteCommand(c, ev, targetId)
        /\ last' = [op |-> ev, conn |-> c, arg |-> targetId]
    /\ UNCHANGED <<dashboard, inbox, outbox, conns, devices, now, crashed>>

\* payloads of update_config: nothing at all, or { targetId, config }
ConfigData == {[kind |-> "null"]} \cup
              {[kind |-> "object", targetId |-> t, config |-> g] :
                   t \in TargetIds, g \in Configs}

\* socket.on('update_config', (data) => ...); data.targetId of a null or
\* undefined payload throws a TypeError that nothing catches
RouteUpdateConfig(c, data) ==
    IF Truthy(data.targetId)
    THEN sendToDevice(data.targetId, "UPDATE_CONFIG", data.config)
    ELSE <<BroadcastEmit(c, "UPDATE_CONFIG", data)>>

OnUpdateConfig ==
    /\ Idle
    /\ \E c \in OpenConns, data \in ConfigData :
        /\ IF data.kind = "null"
           THEN /\ crashed' = TRUE
                /\ sent' = <<>>
           ELSE /\ crashed' = FALSE
                /\ sent' = RouteUpdateConfig(c, data)
        /\ last' = [op |-> "update_config", conn |-> c, arg |-> data]
    /\ UNCHANGED <<dashboard, inbox, outbox, conns, devices, now>>

\* the relay written with socket.broadcast.emit
RouteMediaOthers(c, out, data) ==
    LET deviceId == getDeviceIdBySocketId(c)
    IN  IF Truthy(deviceId)
        THEN <<BroadcastEmit(c, out, [deviceId |-> deviceId, data |-> data])>>
        ELSE <<>>

\* socket.on('audio_stream') and socket.on('video_frame')
RouteMedia(c, out, data) ==
    LET deviceId == getDeviceIdBySocketId(c)
    IN  IF Truthy(deviceId)
        THEN <<IoEmit(out, [deviceId |-> deviceId, data |-> data])>>
        ELSE <<>>

OnAudioStream ==
    /\ Idle
    /\ \E c \in OpenConns, data \in Chunks :
        /\ sent' = RouteMedia(c, "audio_data", data)
        /\ last' = [op |-> "audio_stream", conn |-> c, arg |-> data]
    /\ UNCHANGED <<dashboard, inbox, outbox, conns, devices, now, crashed>>

OnVideoFrame ==
    /\ Idle
    /\ \E c \in OpenConns, data \in Chunks :
        /\ sent' = RouteMedia(c, "video_data", data)
        /\ last' = [op |-> "video_frame", conn |-> c, arg |-> data]
    /\ UNCHANGED <<dashboard, inbox, outbox, conns, devices, now, crashed>>

Next ==
    \/ OnConnection
    \/ OnDisconnect
    \/ Flush
    \/ Tick

Spec == Init /\ [][Next]_vars

\* the command handlers over the registry
NextCommands ==
    \/ OnConnection
    \/ OnDisconnect
    \/ OnCommand
    \/ OnUpdateConfig
    \/ Flush

SpecCommands == Init /\ [][NextCommands]_vars

\* the media relays over the registry
NextMedia ==
    \/ OnConnection
    \/ OnDisconnect
    \/ OnAudioStream
    \/ OnVideoFrame
    \/ Flush

SpecMedia == Init /\ [][NextMedia]_vars

\* ------------------------------------------------------------- heartbeat
Timestamps == 0..MaxTime        \* the client clock value a heartbeat carries

\* a liveness update that stores the entry under the id the socket declared
\* in its handshake, whether or not the registry still has it
TouchLastSeenDeclared(c) ==
    IF conns[c].role = "device"
    THEN MapSet(devices, conns[c].deviceId,
                [socketId |-> c, name |-> "Unknown Device",
                 connectedAt |-> now, lastSeen |-> now])
    ELSE devices

\* a liveness update that stamps every entry of the registry
TouchLastSeenAll(c) ==
    [i \in 1..Len(devices) |->
        [devices[i] EXCEPT !.val = [@ EXCEPT !.lastSeen = now]]]

\* heartbeat, second half: if (deviceId && devices.has(deviceId)) the entry
\* gets lastSeen = new Date() and is stored back under the same key
TouchLastSeen(c) ==
    LET deviceId == getDeviceIdBySocketId(c)
    IN  IF Truthy(deviceId) /\ MapHas(devices, deviceId)
        THEN MapSet(devices, deviceId,
                    [MapGet(devices, deviceId) EXCEPT !.lastSeen = now])
        ELSE devices

\* heartbeat, first half: socket.emit('pong_response', {...})
Pong(c, timestamp) ==
    SocketEmit(c, "pong_response",
               [serverTime |-> now, clientTime |-> timestamp,
                latency |-> now - timestamp])

\* socket.on('heartbeat', (timestamp) => ...)
OnHeartbeat ==
    /\ Idle
    /\ \E c \in OpenConns, timestamp \in Timestamps :
        /\ sent' = <<Pong(c, timestamp)>>
        /\ devices' = TouchLastSeen(c)
        /\ last' = [op |-> "heartbeat", conn |-> c, arg |-> timestamp]
    /\ UNCHANGED <<dashboard, inbox, outbox, conns, now, crashed>>

\* the liveness tracker over the registry
NextHeartbeat ==
    \/ OnConnection
    \/ OnDisconnect
    \/ OnHeartbeat
    \/ Flush
    \/ Tick

SpecHeartbeat == Init /\ [][NextHeartbeat]_vars

\* ------------------------------------------------- WebRTC payload values
\* The WebRTC handlers inspect their payload (typeof, property access,
\* JSON.parse, JSON.stringify), so a payload is a tagged JS value.  The
\* text of a string is a sequence of tokens; a JSON text is the token
\* sequence JSON.stringify writes.
JUndef       == [kind |-> "undefined"]
JNull        == [kind |-> "null"]
JStr(text)   == [kind |-> "string", text |-> text]
JObj(fields) == [kind |-> "object", fields |-> fields]

NoFields == [k \in {} |-> JUndef]

\* payload.k: undefined for a missing property and for a property of a string
Field(v, k) ==
    IF v.kind = "object" /\ k \in DOMAIN v.fields THEN v.fields[k] ELSE JUndef

\* property access on null or undefined throws a TypeError
ThrowsOnAccess(v) == v.kind \in {"null", "undefined"}

JTruthy(v) == v.kind = "object" \/ (v.kind = "string" /\ v.text # <<>>)

\* a device id as a JS string value, and back; a value that is not a string
\* of one token is the key of no registry entry
NoSuchId  == "<no such id>"
IdText(t) == IF t = "" THEN <<>> ELSE <<t>>
IdOf(v)   == IF v.kind = "string" /\ Len(v.text) <= 1
             THEN (IF v.text = <<>> THEN "" ELSE v.text[1])
             ELSE NoSuchId

QUOTE     == "\""
BACKSLASH == "\\"
KeyOrder  == <<"targetId", "offer", "candidate", "sdp">>   \* member order

RECURSIVE Escape(_)

\* the inside of a string literal: a quote or backslash gets a backslash
Escape(text) ==
    IF text = <<>> THEN <<>>
    ELSE (IF Head(text) \in {QUOTE, BACKSLASH}
          THEN <<BACKSLASH, Head(text)>> ELSE <<Head(text)>>)
         \o Escape(Tail(text))

RECURSIVE StringifyText(_), StringifyMembers(_, _, _)

\* the members of an object from KeyOrder[i] on; a member whose value is
\* undefined is left out
StringifyMembers(v, i, first) ==
    IF i > Len(KeyOrder) THEN <<>>
    ELSE LET k == KeyOrder[i] IN
         IF Field(v, k).kind = "undefined"
         THEN StringifyMembers(v, i + 1, first)
         ELSE (IF first THEN <<>> ELSE <<",">>)
              \o <<QUOTE, k, QUOTE, ":">> \o StringifyText(Field(v, k))
              \o StringifyMembers(v, i + 1, FALSE)

StringifyText(v) ==
    CASE v.kind = "string" -> <<QUOTE>> \o Escape(v.text) \o <<QUOTE>>
      [] v.kind = "null"   -> <<"null">>
      [] v.kind = "object" -> <<"{">> \o StringifyMembers(v, 1, TRUE) \o <<"}">>

\* JSON.stringify(v): a string, or undefined for undefined
JSONstringify(v) ==
    IF v.kind = "undefined" THEN JUndef ELSE JStr(StringifyText(v))

ParseFail == [ok |-> FALSE, val |-> JUndef, next |-> 0]
ParseOk(v, n) == [ok |-> TRUE, val |-> v, next |-> n]

RECURSIVE ScanString(_, _, _)

\* the inside of a string literal from t[j] on, up to the closing quote
ScanString(t, j, acc) ==
    IF j > Len(t) THEN ParseFail
    ELSE CASE t[j] = QUOTE     -> ParseOk(JStr(acc), j + 1)
           [] t[j] = BACKSLASH -> IF j + 1 > Len(t) THEN ParseFail
                                  ELSE ScanString(t, j + 2, Append(acc, t[j + 1]))
           [] OTHER            -> ScanString(t, j + 1, Append(acc, t[j]))

\* a string literal starting at t[i]
ParseString(t, i) ==
    IF i > Len(t) \/ t[i] # QUOTE THEN ParseFail ELSE ScanString(t, i + 1, <<>>)

RECURSIVE ParseValue(_, _), ParseMembers(_, _, _)

\* the members of an object, t[i] being the first token of a member
ParseMembers(t, i, acc) ==
    LET key == ParseString(t, i) IN
    IF ~key.ok \/ Len(key.val.text) # 1 THEN ParseFail
    ELSE IF key.next > Len(t) \/ t[key.next] # ":" THEN ParseFail
    ELSE LET val == ParseValue(t, key.next + 1) IN
         IF ~val.ok \/ val.next > Len(t) THEN ParseFail
         ELSE LET fields == (key.val.text[1] :> val.val) @@ acc IN
              CASE t[val.next] = "," -> ParseMembers(t, val.next + 1, fields)
                [] t[val.next] = "}" -> ParseOk(JObj(fields), val.next + 1)
                [] OTHER             -> ParseFail

ParseValue(t, i) ==
    IF i > Len(t) THEN ParseFail
    ELSE CASE t[i] = "null" -> ParseOk(JNull, i + 1)
           [] t[i] = QUOTE  -> ParseString(t, i)
           [] t[i] = "{"    -> IF i < Len(t) /\ t[i + 1] = "}"
                               THEN ParseOk(JObj(NoFields), i + 2)
                               ELSE ParseMembers(t, i + 1, NoFields)
           [] OTHER         -> ParseFail

\* JSON.parse(s): ok with the value, or not ok when it throws a SyntaxError
JSONparse(s) ==
    LET r == ParseValue(s.text, 1) IN
    IF r.ok /\ r.next = Len(s.text) + 1 THEN r ELSE ParseFail

\* ------------------------------------------- handlers that read a payload
\* sendToDevice that broadcasts when the target is unknown
sendToDeviceOrAll(targetId, event, v) ==
    <<Emission(event, IF v.kind = "undefined" THEN JNull ELSE v,
               IF MapHas(devices, targetId)
               THEN {MapGet(devices, targetId).socketId} \cap OpenConns
               ELSE OpenConns)>>

\* sendToDevice called with a tagged value: the default parameter turns an
\* undefined argument into null
sendToDeviceValue(targetId, event, v) ==
    IF MapHas(devices, targetId)
    THEN <<Emission(event, IF v.kind = "undefined" THEN JNull ELSE v,
                    {MapGet(devices, targetId).socketId} \cap OpenConns)>>
    ELSE <<>>

\* { targetId?, <k>? } as a client builds it
Payload(t, k, v) ==
    JObj((IF t = Undefined THEN NoFields ELSE ("targetId" :> JStr(IdText(t))))
         @@ (IF v.kind = "undefined" THEN NoFields ELSE (k :> v)))

\* session descriptions / candidates: absent, a plain string, an object, and
\* the JSON text of that object (a string with quotes in it)
Descriptions ==
    {JUndef, JStr(<<"sdp">>), JObj(("sdp" :> JStr(<<"v">>)) @@ NoFields),
     JSONstringify(JObj(("sdp" :> JStr(<<"v">>)) @@ NoFields))}

\* strings that are not JSON texts
BadTexts == {JStr(<<"not json">>), JStr(<<"{", QUOTE, "targetId", QUOTE, ":">>)}

Objects(k) == {Payload(t, k, v) : t \in TargetIds, v \in Descriptions}

\* what a client may send as webrtc_offer / webrtc_ice_candidate: nothing,
\* an object, the JSON text of an object, the JSON text null, or other text
SignalData(k) ==
    {JNull, JStr(<<"null">>)} \cup BadTexts
    \cup Objects(k) \cup {JSONstringify(p) : p \in Objects(k)}

\* webrtc_offer after the payload is known
RouteOffer(c, data, payload) ==
    LET targetId == Field(payload, "targetId")
        offer    == Field(payload, "offer")
    IN  IF JTruthy(targetId)
        THEN sendToDeviceValue(IdOf(targetId), "webrtc_offer",
                 JSONstringify(IF JTruthy(offer) THEN offer ELSE payload))
        ELSE <<BroadcastEmit(c, "webrtc_offer", data)>>

\* socket.on('webrtc_offer'): JSON.parse is not guarded, payload.targetId
\* throws on null
OnWebrtcOffer ==
    /\ Idle
    /\ \E c \in OpenConns, data \in SignalData("offer") :
        LET parsed  == IF data.kind = "string" THEN JSONparse(data) ELSE ParseOk(data, 0)
            payload == parsed.val
        IN  /\ IF ~parsed.ok \/ ThrowsOnAccess(payload)
               THEN /\ crashed' = TRUE
                    /\ sent' = <<>>
               ELSE /\ crashed' = FALSE
                    /\ sent' = RouteOffer(c, data, payload)
            /\ last' = [op |-> "webrtc_offer", conn |-> c, arg |-> data]
    /\ UNCHANGED <<dashboard, inbox, outbox, conns, devices, now>>

\* webrtc_ice_candidate after the payload is known
RouteIce(c, data, payload) ==
    LET targetId  == Field(payload, "targetId")
        candidate == Field(payload, "candidate")
    IN  IF JTruthy(targetId)
        THEN sendToDeviceValue(IdOf(targetId), "webrtc_ice_candidate",
                 IF candidate.kind = "string" THEN candidate
                 ELSE JSONstringify(candidate))
        ELSE <<BroadcastEmit(c, "webrtc_ice_candidate", data)>>

\* the payload declared without a value and assigned only inside the try
IcePayloadUnassigned(data) ==
    IF data.kind = "string" THEN JSONparse(data).val ELSE data

\* let payload = data; try { if (typeof data === 'string') payload =
\* JSON.parse(data) } catch (e) { }: a SyntaxError leaves the raw data
IcePayload(data) ==
    IF data.kind = "string" /\ JSONparse(data).ok THEN JSONparse(data).val ELSE data

\* socket.on('webrtc_ice_candidate'); payload.targetId throws on null
OnWebrtcIceCandidate ==
    /\ Idle
    /\ \E c \in OpenConns, data \in SignalData("candidate") :
        LET payload == IcePayload(data)
        IN  /\ IF ThrowsOnAccess(payload)
               THEN /\ crashed' = TRUE
                    /\ sent' = <<>>
               ELSE /\ crashed' = FALSE
                    /\ sent' = RouteIce(c, data, payload)
            /\ last' = [op |-> "webrtc_ice_candidate", conn |-> c, arg |-> data]
    /\ UNCHANGED <<dashboard, inbox, outbox, conns, devices, now>>

\* payloads of camera_status: nothing, or { status }
StatusData == {JNull, [kind |-> "object", status |-> "on"]}

\* socket.on('camera_status'): data.status is read for the log line
OnCameraStatus ==
    /\ Idle
    /\ \E c \in OpenConns, data \in StatusData :
        /\ IF ThrowsOnAccess(data)
           THEN /\ crashed' = TRUE
                /\ sent' = <<>>
           ELSE /\ crashed' = FALSE
                /\ sent' = <<BroadcastEmit(c, "camera_status", data)>>
        /\ last' = [op |-> "camera_status", conn |-> c, arg |-> data]
    /\ UNCHANGED <<dashboard, inbox, outbox, conns, devices, now>>

\* payloads of update_video_quality: nothing, or { targetId, quality }
QualityData == {JNull} \cup
               {[kind |-> "object", targetId |-> t, quality |-> "hd"] : t \in TargetIds}

\* socket.on('update_video_quality'): data.quality is read for the log line;
\* there is no fallback branch
OnUpdateVideoQuality ==
    /\ Idle
    /\ \E c \in OpenConns, data \in QualityData :
        /\ IF ThrowsOnAccess(data)
           THEN /\ crashed' = TRUE
                /\ sent' = <<>>
           ELSE /\ crashed' = FALSE
                /\ sent' = IF Truthy(data.targetId)
                           THEN sendToDeviceValue(data.targetId,
                                                  "UPDATE_VIDEO_QUALITY", data)
                           ELSE <<>>
        /\ last' = [op |-> "update_video_quality", conn |-> c, arg |-> data]
    /\ UNCHANGED <<dashboard, inbox, outbox, conns, devices, now>>

\* the signalling and status relays over the registry
NextSignal ==
    \/ OnConnection
    \/ OnDisconnect
    \/ OnWebrtcOffer
    \/ OnWebrtcIceCandidate
    \/ OnCameraStatus
    \/ OnUpdateVideoQuality
    \/ Flush

SpecSignal == Init /\ [][NextSignal]_vars

\* ------------------------------------------------- relays to dashboards
\* payloads of the relayed events: nothing, a string, and objects that
\* happen to carry a targetId (of a device, and empty)
RelayData ==
    {JNull, JStr(<<"d1">>),
     Payload("d1", "sdp", JStr(<<"v">>)), Payload("", "sdp", JStr(<<"v">>))}

\* a relay that unicasts a payload carrying a targetId
RelayTargeted(c, ev, data) ==
    IF JTruthy(Field(data, "targetId"))
    THEN sendToDeviceValue(IdOf(Field(data, "targetId")), ev, data)
    ELSE <<BroadcastEmit(c, ev, data)>>

\* socket.broadcast.emit(ev, data), the whole body of the four handlers
Relay(c, ev, data) == <<BroadcastEmit(c, ev, data)>>

OnRelayed(ev) ==
    /\ Idle
    /\ \E c \in OpenConns, data \in RelayData :
        /\ sent' = Relay(c, ev, data)
        /\ last' = [op |-> ev, conn |-> c, arg |-> data]
    /\ UNCHANGED <<dashboard, inbox, outbox, conns, devices, now, crashed>>

\* socket.on('webrtc_answer')
OnWebrtcAnswer == OnRelayed("webrtc_answer")

\* socket.on('camera_ready')
OnCameraReady == OnRelayed("camera_ready")

\* socket.on('current_config')
OnCurrentConfig == OnRelayed("current_config")

\* socket.on('storage_stats')
OnStorageStats == OnRelayed("storage_stats")

Reports  == {"report"}
Messages == {"msg"}

\* a permission_report relay that skips the sender
RoutePermissionReportOthers(c, data) ==
    LET deviceId == getDeviceIdBySocketId(c)
    IN  IF Truthy(deviceId)
        THEN <<BroadcastEmit(c, "permission_report",
                             [deviceId |-> deviceId, report |-> data])>>
        ELSE <<>>

\* socket.on('permission_report'): if (deviceId) io.emit(..., { deviceId,
\* report: data })
RoutePermissionReport(c, data) ==
    LET deviceId == getDeviceIdBySocketId(c)
    IN  IF Truthy(deviceId)
        THEN <<IoEmit("permission_report", [deviceId |-> deviceId, report |-> data])>>
        ELSE <<>>

OnPermissionReport ==
    /\ Idle
    /\ \E c \in OpenConns, data \in Reports :
        /\ sent' = RoutePermissionReport(c, data)
        /\ last' = [op |-> "permission_report", conn |-> c, arg |-> data]
    /\ UNCHANGED <<dashboard, inbox, outbox, conns, devices, now, crashed>>

\* `[${deviceId || 'unknown'}] ${message}` as the pieces it is put together
\* from
LogLine(deviceId, message) ==
    <<"[", IF Truthy(deviceId) THEN deviceId ELSE "unknown", "] ", message>>

\* socket.on('log')
RouteLog(c, message) ==
    <<IoEmit("server_log", LogLine(getDeviceIdBySocketId(c), message))>>

OnLog ==
    /\ Idle
    /\ \E c \in OpenConns, message \in Messages :
        /\ sent' = RouteLog(c, message)
        /\ last' = [op |-> "log", conn |-> c, arg |-> message]
    /\ UNCHANGED <<dashboard, inbox, outbox, conns, devices, now, crashed>>

\* the relays towards the dashboards over the registry
NextRelay ==
    \/ OnConnection
    \/ OnDisconnect
    \/ OnWebrtcAnswer
    \/ OnCameraReady
    \/ OnCurrentConfig
    \/ OnStorageStats
    \/ OnPermissionReport
    \/ OnLog
    \/ Flush

SpecRelay == Init /\ [][NextRelay]_vars

\* ------------------------------------------ receipt and dispatch order
\* The engine hands the packets of one socket to its listeners in the order
\* they arrived, one listener call at a time; every listener above is a
\* synchronous function, so its emits are queued on the recipients' sockets
\* before the next listener starts.
QueuedEvents ==
    {[ev |-> "log", arg |-> "msg"],
     [ev |-> "webrtc_answer", arg |-> "sdp"],
     [ev |-> "get_status", arg |-> "d1"]}

QueuedTotal == LET Sum[c \in 0..MaxConns] ==
                       IF c = 0 THEN 0 ELSE Sum[c - 1] + inbox[c].count
               IN  Sum[MaxConns]

\* a client's socket.emit(ev, arg) has reached the server
Receive ==
    /\ ~crashed
    /\ QueuedTotal < MaxEvents
    /\ \E c \in OpenConns, e \in QueuedEvents :
        inbox' = [inbox EXCEPT ![c] =
                    [count |-> @.count + 1,
                     queue |-> Append(@.queue,
                                  [seq |-> @.count + 1, ev |-> e.ev, arg |-> e.arg])]]
    /\ UNCHANGED <<conns, devices, now, sent, last, crashed, outbox, dashboard>>

\* a dispatcher that takes the newest packet of a socket first
NewestInbound(q) == Len(q)

\* the packet of a socket that is dispatched next: the oldest
NextInbound(q) == 1

\* the listener registered for the event
Listener(c, e) ==
    CASE e.ev = "log"           -> RouteLog(c, e.arg)
      [] e.ev = "webrtc_answer" -> Relay(c, e.ev, e.arg)
      [] OTHER                  -> RouteCommand(c, e.ev, e.arg)

\* what the emissions of one listener run add to the socket of r
Written(r, c, e, out) ==
    LET Rec(m) == [from |-> c, seq |-> e.seq, event |-> m.event]
        F[i \in 0..Len(out)] ==
            IF i = 0 THEN <<>>
            ELSE IF r \in out[i].to THEN Append(F[i - 1], Rec(out[i]))
                 ELSE F[i - 1]
    IN  F[Len(out)]

\* one listener call: the packet leaves the queue, the listener runs to its
\* end and everything it emitted is on the recipients' sockets
Dispatch ==
    /\ Idle
    /\ \E c \in OpenConns :
        /\ inbox[c].queue # <<>>
        /\ LET q   == inbox[c].queue
               k   == NextInbound(q)
               e   == q[k]
               out == Listener(c, e)
           IN  /\ inbox' = [inbox EXCEPT ![c].queue =
                               [i \in 1..(Len(q) - 1) |->
                                    IF i < k THEN q[i] ELSE q[i + 1]]]
               /\ sent' = out
               /\ outbox' = [r \in Conns |-> outbox[r] \o Written(r, c, e, out)]
               /\ last' = [op |-> e.ev, conn |-> c, arg |-> e.arg]
    /\ UNCHANGED <<conns, devices, now, crashed, dashboard>>

\* the server after device d1 and then the dashboards have connected, one
\* after the other, and the connection handler of the last has returned
InitOrdering ==
    /\ conns = [c \in Conns |->
                  IF c = 1
                  THEN [state |-> "open", role |-> "device", deviceId |-> "d1"]
                  ELSE [state |-> "open", role |-> "admin", deviceId |-> "-"]]
    /\ devices = <<[key |-> "d1",
                    val |-> [socketId |-> 1, name |-> "Pixel",
                             connectedAt |-> 0, lastSeen |-> NoTime]]>>
    /\ now = 0
    /\ sent = <<>>
    /\ last = IdleLast
    /\ crashed = FALSE
    /\ inbox = [c \in Conns |-> [count |-> 0, queue |-> <<>>]]
    /\ outbox = [c \in Conns |-> <<>>]
    /\ dashboard = [c \in Conns |->
                      IF c = 1 THEN NoRoster
                      ELSE <<[key |-> "d1",
                              val |-> [socketId |-> 1, name |-> "Pixel",
                                       connectedAt |-> 0, lastSeen |-> NoTime]]>>]

\* clients queueing events while the server dispatches them
NextOrdering ==
    \/ OnDisconnect
    \/ Receive
    \/ Dispatch
    \/ Flush

SpecOrdering == InitOrdering /\ [][NextOrdering]_vars

\* ------------------------------------------------------ the legacy server
\* src/server.js: every command is socket.broadcast.emit(<NAME>), and
\* update_config passes its argument on
LegacyTable ==
    [get_status        |-> "GET_STATUS",
     start_monitoring  |-> "START_AUDIO",
     stop_monitoring   |-> "STOP_AUDIO",
     start_video       |-> "START_CAM",
     stop_video        |-> "STOP_CAM",
     switch_camera     |-> "SWITCH_CAM",
     toggle_flash      |-> "TOGGLE_FLASH",
     brightness_up     |-> "BRIGHTNESS_UP",
     brightness_down   |-> "BRIGHTNESS_DOWN",
     update_config     |-> "UPDATE_CONFIG",
     get_config        |-> "GET_CONFIG",
     get_storage_stats |-> "GET_STORAGE_STATS",
     hide_app_icon     |-> "HIDE_APP_ICON",
     show_app_icon     |-> "SHOW_APP_ICON"]

\* the listeners ignore their arguments, update_config excepted
LegacyRoute(c, ev, data) ==
    <<BroadcastEmit(c, LegacyTable[ev],
                    IF ev = "update_config" THEN data ELSE Undefined)>>

\* the events that carry the sender's identity, over the registry
NextAttribution ==
    \/ OnConnection
    \/ OnDisconnect
    \/ OnAudioStream
    \/ OnVideoFrame
    \/ OnPermissionReport
    \/ Flush

SpecAttribution == Init /\ [][NextAttribution]_vars

\* ============================================================== claims
\* open connections that did not connect as a device (the dashboards)
Controllers == {c \in OpenConns : conns[c].role # "device"}

\* open device connections that declared device id d at connect time
Declaring(d) == {c \in OpenConns : conns[c].role = "device" /\ conns[c].deviceId = d}

\* how many of the last handler's emissions of event ev reached socket r
DeliveredCount(r, ev) ==
    Cardinality({i \in 1..Len(sent) : sent[i].event = ev /\ r \in sent[i].to})

\* how many emissions of any event reached socket r
DeliveredAny(r) == Cardinality({i \in 1..Len(sent) : r \in sent[i].to})

RosterHasKey(roster, d) == \E i \in 1..Len(roster) : roster[i].key = d

DeviceConnected == last.op = "connection" /\ last.arg.type = "device"

DeviceDisconnected == last.op = "disconnect" /\ last.arg.role = "device"

\* ------------------------------------------------------------------ C1
\* C1: the disconnect of a device connection that has been superseded in the
\* registry (the entry of its device id points at another connection) leaves
\* the registry as it was, so the entry of the newer connection survives.
\* Stated for connections that supplied a non-empty device id.
C1_ConditionalEviction ==
    [][\A c \in Conns :
         ( /\ last'.op = "disconnect" /\ last'.conn = c
           /\ conns[c].role = "device"
           /\ Truthy(conns[c].deviceId)
           /\ MapHas(devices, conns[c].deviceId)
           /\ MapGet(devices, conns[c].deviceId).socketId # c )
         => devices' = devices]_vars

\* ------------------------------------------------------------------ C2
\* C2: whenever exactly one open device connection declares a device id, the
\* registry holds exactly one entry for that id.  Stated for the non-empty
\* device ids.
C2_OneLiveOneEntry ==
    \A d \in {x \in DeviceIds : Truthy(x)} :
        Cardinality(Declaring(d)) = 1 => Cardinality(KeyIndexes(devices, d)) = 1

\* ------------------------------------------------------------------ C3
\* C3: the registry never holds two entries with the same device id, and
\* right after a device connection registers, the entry of its id points at it.
C3_RegistryUniqueness ==
    /\ \A i, j \in 1..Len(devices) : devices[i].key = devices[j].key => i = j
    /\ DeviceConnected =>
          \E i \in 1..Len(devices) :
              /\ devices[i].key = last.arg.deviceId
              /\ devices[i].val.socketId = last.conn

\* a device has just registered an id that another open connection declared
C3_Witness ==
    /\ DeviceConnected
    /\ Declaring(last.arg.deviceId) \ {last.conn} # {}
    /\ Len(devices) >= 2

\* ------------------------------------------------------------------ C4
\* C4: every registry entry references an open connection.
C4_NoDanglingEntry ==
    \A i \in 1..Len(devices) : devices[i].val.socketId \in OpenConns

\* a device connection has just closed while another device stays registered
C4_Witness ==
    /\ DeviceDisconnected
    /\ devices # <<>>

\* ------------------------------------------------------------------ C5
\* C5: a device registration delivers exactly one device_list_update to every
\* open dashboard connection, with the new device in its roster; a device
\* disconnect delivers exactly one to every open dashboard connection, with
\* that device id absent from its roster.
C5_RosterBroadcast ==
    /\ DeviceConnected =>
          /\ \A r \in Controllers : DeliveredCount(r, "device_list_update") = 1
          /\ \A i \in 1..Len(sent) :
                /\ sent[i].event = "device_list_update"
                /\ \E k \in 1..Len(sent[i].data) :
                      /\ sent[i].data[k].key = last.arg.deviceId
                      /\ sent[i].data[k].val.socketId = last.conn
    /\ DeviceDisconnected =>
          /\ \A r \in Controllers : DeliveredCount(r, "device_list_update") = 1
          /\ \A i \in 1..Len(sent) :
                /\ sent[i].event = "device_list_update"
                /\ ~RosterHasKey(sent[i].data, last.arg.deviceId)

\* a device has closed while a dashboard is watching and another device stays
C5_Witness ==
    /\ DeviceDisconnected
    /\ Controllers # {}
    /\ devices # <<>>

\* ------------------------------------------------------------------ C6
\* C6: accepting a dashboard connection sends one device_list_update with the
\* registry snapshot to that connection only and leaves the registry alone.
C6_ControllerSnapshot ==
    [][(last'.op = "connection" /\ last'.arg.type # "device") =>
          /\ devices' = devices
          /\ sent' = <<Emission("device_list_update", devices, {last'.conn})>>]_vars

\* a dashboard has connected while a device is registered and others are open
C6_Witness ==
    /\ last.op = "connection" /\ last.arg.type # "device"
    /\ devices # <<>>
    /\ Cardinality(OpenConns) >= 3
    /\ DeliveredAny(last.conn) = 1

\* ------------------------------------------------------------------ C7
\* C7: update_config carrying a target id that is registered delivers exactly
\* one UPDATE_CONFIG to the connection registered for that id and nothing to
\* any other connection.
C7_TargetedDelivery ==
    ( /\ last.op = "update_config"
      /\ last.arg.kind = "object"
      /\ last.arg.targetId # Undefined
      /\ MapHas(devices, last.arg.targetId) )
    => LET t == MapGet(devices, last.arg.targetId).socketId
       IN  /\ DeliveredCount(t, "UPDATE_CONFIG") = 1
           /\ DeliveredAny(t) = 1
           /\ \A r \in Conns \ {t} : DeliveredAny(r) = 0

\* ------------------------------------------------------------------ C8
\* C8: start_monitoring without a target id delivers START_AUDIO exactly once
\* to every open connection except the sender, and nothing to the sender or
\* to a closed connection.
C8_FallbackBroadcast ==
    (last.op = "start_monitoring" /\ last.arg = Undefined)
    => /\ \A r \in OpenConns \ {last.conn} :
              DeliveredCount(r, "START_AUDIO") = 1 /\ DeliveredAny(r) = 1
       /\ \A r \in (Conns \ OpenConns) \cup {last.conn} : DeliveredAny(r) = 0

\* start_monitoring without target, sent while two other connections are open
\* and a device is registered
C8_Witness ==
    /\ last.op = "start_monitoring" /\ last.arg = Undefined
    /\ Cardinality(OpenConns) >= 3
    /\ devices # <<>>
    /\ \A r \in OpenConns \ {last.conn} : DeliveredAny(r) = 1

\* ------------------------------------------------------------------ C9
\* C9: get_config, get_storage_stats, hide_app, show_app and the manual
\* recording start/stop events, sent without a target id, broadcast the
\* renamed command to every open connection except the sender.
C9_Renamed ==
    [get_config             |-> "GET_CONFIG",
     get_storage_stats      |-> "GET_STORAGE_STATS",
     hide_app               |-> "HIDE_APP",
     show_app               |-> "SHOW_APP",
     START_MANUAL_RECORDING |-> "START_MANUAL_RECORDING",
     STOP_MANUAL_RECORDING  |-> "STOP_MANUAL_RECORDING"]

C9_FallbackForAll ==
    (last.op \in DOMAIN C9_Renamed /\ last.arg = Undefined)
    => /\ \A r \in OpenConns \ {last.conn} :
              DeliveredCount(r, C9_Renamed[last.op]) = 1
       /\ DeliveredAny(last.conn) = 0

\* ----------------------------------------------------------------- C10
MediaOps == [audio_stream |-> "audio_data", video_frame |-> "video_data"]

\* C10 as stated: every audio_stream (video_frame) of an open connection is
\* delivered as audio_data (video_data) to all open connections, the sender
\* included, wrapped with the device id the sender declared.
C10_SelfInclusiveAlways ==
    last.op \in DOMAIN MediaOps
    => sent = <<Emission(MediaOps[last.op],
                         [deviceId |-> conns[last.conn].deviceId, data |-> last.arg],
                         OpenConns)>>

\* the sender is the connection the registry holds for the non-empty device
\* id it declared
RegisteredSender(c) ==
    /\ conns[c].role = "device"
    /\ Truthy(conns[c].deviceId)
    /\ \E i \in 1..Len(devices) :
          devices[i].key = conns[c].deviceId /\ devices[i].val.socketId = c

\* C10 (amended): audio_stream (video_frame) is relayed exactly when the
\* sender is the connection currently registered under a non-empty device
\* id; it then goes once to every open connection, the sender included,
\* wrapped as {deviceId: that id, data: payload}; otherwise nothing is sent.
C10_SelfInclusiveBroadcast ==
    last.op \in DOMAIN MediaOps
    => IF RegisteredSender(last.conn)
       THEN /\ last.conn \in OpenConns
            /\ sent = <<Emission(MediaOps[last.op],
                                 [deviceId |-> conns[last.conn].deviceId,
                                  data |-> last.arg],
                                 OpenConns)>>
       ELSE sent = <<>>

\* a registered device streams audio while two other connections are open
C10_Witness ==
    /\ last.op = "audio_stream"
    /\ RegisteredSender(last.conn)
    /\ Cardinality(OpenConns) >= 3
    /\ DeliveredCount(last.conn, "audio_data") = 1

\* ----------------------------------------------------------------- C11
\* C11: a heartbeat with client timestamp T0 processed at server time T1
\* yields exactly one pong_response, to the sender only, with clientTime T0
\* and latency T1 - T0; if the sender is the connection registered for a
\* device id, that entry's lastSeen becomes the receipt time.
C11_Heartbeat ==
    last.op = "heartbeat"
    => /\ sent = <<Emission("pong_response",
                            [serverTime |-> now, clientTime |-> last.arg,
                             latency |-> now - last.arg],
                            {last.conn})>>
       /\ \A i \in 1..Len(devices) :
             (devices[i].val.socketId = last.conn /\ devices[i].key # Undefined)
             => devices[i].val.lastSeen = now

\* ----------------------------------------------------------------- C12
\* C12: a webrtc_ice_candidate whose payload is a string that is not JSON
\* does not crash the router, and the raw string goes unmodified as
\* webrtc_ice_candidate to every open connection except the sender.
C12_MalformedIceCandidate ==
    (last.op = "webrtc_ice_candidate" /\ last.arg \in BadTexts)
    => /\ ~crashed
       /\ sent = <<Emission("webrtc_ice_candidate", last.arg,
                            OpenConns \ {last.conn})>>

\* a non-JSON candidate arrives while two other connections are open and a
\* device is registered
C12_Witness ==
    /\ last.op = "webrtc_ice_candidate" /\ last.arg \in BadTexts
    /\ Cardinality(OpenConns) >= 3
    /\ devices # <<>>
    /\ \A r \in OpenConns \ {last.conn} : DeliveredCount(r, "webrtc_ice_candidate") = 1

\* ----------------------------------------------------------------- C13
\* C13: for every WebRTC event, webrtc_offer included, a string payload that
\* is not JSON is handled locally: no crash, and the raw payload is broadcast
\* to the other connections.
C13_MalformedAnySignal ==
    (last.op \in {"webrtc_offer", "webrtc_ice_candidate"} /\ last.arg \in BadTexts)
    => /\ ~crashed
       /\ sent = <<Emission(last.op, last.arg, OpenConns \ {last.conn})>>

\* ----------------------------------------------------------------- C15
\* C15: no inbound event is fatal: whatever the payload (an absent payload
\* included), the router is still running after the handler.
C15_NoFatalEvent == ~crashed

\* ----------------------------------------------------------------- C14
SignalOps == {"webrtc_offer", "webrtc_ice_candidate"}

\* the payload object of a signalling event, as the client meant it
SignalObject(data) ==
    IF data.kind = "string" /\ JSONparse(data).ok THEN JSONparse(data).val ELSE data

\* the event e = [op, conn, arg] carries a target id
CarriesTarget(e) ==
    \/ /\ e.op = "update_video_quality"
       /\ e.arg.kind = "object"
       /\ e.arg.targetId # Undefined
    \/ /\ e.op \in SignalOps
       /\ Field(SignalObject(e.arg), "targetId").kind = "string"

\* the target id the event e carries
TargetOf(e) ==
    IF e.op = "update_video_quality" THEN e.arg.targetId
    ELSE IdOf(Field(SignalObject(e.arg), "targetId"))

NothingDelivered(s) == \A i \in 1..Len(s) : s[i].to = {}

\* C14 as stated: a targeted command or WebRTC event whose target id has no
\* registry entry delivers nothing to any connection and leaves the registry
\* unchanged.
C14_UnknownTargetAlways ==
    [][(CarriesTarget(last') /\ ~MapHas(devices, TargetOf(last')))
       => /\ NothingDelivered(sent')
          /\ devices' = devices
          /\ ~crashed']_vars

\* C14 (amended): a targeted command or WebRTC event whose target id is not
\* the empty string and has no registry entry delivers nothing to any
\* connection and leaves the registry unchanged.
C14_UnknownTarget ==
    [][(CarriesTarget(last') /\ TargetOf(last') # ""
          /\ ~MapHas(devices, TargetOf(last')))
       => /\ NothingDelivered(sent')
          /\ devices' = devices
          /\ ~crashed']_vars

\* an offer for the unregistered d2 arrives while d1 is registered and two
\* other connections are open
C14_Witness ==
    /\ last.op = "webrtc_offer"
    /\ CarriesTarget(last) /\ TargetOf(last) = "d2"
    /\ ~MapHas(devices, "d2") /\ MapHas(devices, "d1")
    /\ Cardinality(OpenConns) >= 3
    /\ sent = <<>>

\* ----------------------------------------------------------------- C16
\* sockets are numbered in the order they are accepted: the largest is the
\* one that connected last
Latest(S) == CHOOSE c \in S : \A b \in S : b <= c

\* the last handler run called sendToDevice with the target id it was given
UnicastTo(d) ==
    \/ last.op \in CommandEvents /\ last.arg = d /\ Truthy(d)
    \/ /\ last.op = "update_config" /\ last.arg.kind = "object"
       /\ last.arg.targetId = d /\ Truthy(d)

\* C16: while an entry for device id D exists it points at the open
\* connection that registered D last, whatever earlier connections declaring
\* D are still open; a unicast addressed to D (sendToDevice) is delivered
\* once to that connection and to no other.
C16_LastRegistrationWins ==
    \A d \in DeviceIds :
        MapHas(devices, d) =>
            /\ Declaring(d) # {}
            /\ MapGet(devices, d).socketId = Latest(Declaring(d))
            /\ sendToDevice(d, "GET_STATUS", Undefined)
                   = <<Emission("GET_STATUS", Null, {Latest(Declaring(d))})>>
            /\ UnicastTo(d) =>
                  \A r \in Conns :
                      DeliveredAny(r) = IF r = Latest(Declaring(d)) THEN 1 ELSE 0

\* the earlier of two open connections registered as d1 asks for the status
\* of d1: the command goes to the later one
C16_Witness ==
    /\ last.op = "get_status" /\ last.arg = "d1"
    /\ Cardinality(Declaring("d1")) = 2
    /\ MapHas(devices, "d1")
    /\ last.conn \in Declaring("d1")
    /\ DeliveredAny(last.conn) = 0
    /\ DeliveredAny(Latest(Declaring("d1"))) = 1

\* ----------------------------------------------------------------- C17
Keys(m) == {m[i].key : i \in 1..Len(m)}

\* C17: a key leaves the registry only in a step that handles the disconnect
\* of a device connection, and enters it only in a step that accepts a device
\* connection; a heartbeat, the clock advancing with no heartbeat, and the
\* write of a handler's packets leave the set of keys as it was.
C17_NoTimeoutEviction ==
    [][ /\ (Keys(devices) \ Keys(devices') # {}) =>
              (last'.op = "disconnect" /\ last'.arg.role = "device")
        /\ (Keys(devices') \ Keys(devices) # {}) =>
              (last'.op = "connection" /\ last'.arg.type = "device")
        /\ (last'.op = "heartbeat" \/ now' # now) =>
              (Keys(devices') = Keys(devices) /\ Len(devices') = Len(devices))
      ]_vars

\* the clock has reached its last value; d1 has just sent a heartbeat, d2 has
\* never sent one since it registered at time 0, and both entries are there
C17_Witness ==
    /\ last.op = "heartbeat" /\ now = MaxTime
    /\ MapHas(devices, "d1") /\ MapHas(devices, "d2")
    /\ MapGet(devices, "d1").socketId = last.conn
    /\ MapGet(devices, "d1").lastSeen = now
    /\ MapGet(devices, "d2").connectedAt = 0
    /\ MapGet(devices, "d2").lastSeen = NoTime

\* ----------------------------------------------------------------- C18
\* device connections whose handshake carried no deviceId
Anonymous == {c \in OpenConns : conns[c].role = "device" /\ conns[c].deviceId = Undefined}

\* entries of the registry that point at socket c
EntriesOf(c) == {i \in 1..Len(devices) : devices[i].val.socketId = c}

\* C18: every open device connection that supplied no deviceId has a registry
\* entry of its own (or was rejected and is not open): two such connections
\* never share a key, so neither the registration of one nor the disconnect
\* of one takes away the entry of the other.
C18_NoAnonymousCollision ==
    \A c \in Anonymous : EntriesOf(c) # {}

\* ----------------------------------------------------------------- C19
\* C19: the step that accepts a connection leaves an entry pointing at it
\* exactly when its handshake declared type 'device', and that entry carries
\* the declared name, or "Unknown Device" when none was declared; no entry
\* ever points at a connection of another role, and neither the connect nor
\* the disconnect of such a connection changes the registry.
C19_RoleClassification ==
    [][ /\ last'.op = "connection" =>
              /\ (\E i \in 1..Len(devices') :
                        devices'[i].val.socketId = last'.conn)
                    <=> (last'.arg.type = "device")
              /\ last'.arg.type = "device" =>
                    MapGet(devices', last'.arg.deviceId).name =
                        (IF last'.arg.name = Undefined THEN "Unknown Device"
                         ELSE last'.arg.name)
              /\ last'.arg.type # "device" => devices' = devices
        /\ (last'.op = "disconnect" /\ last'.arg.role # "device") =>
              devices' = devices
        /\ \A i \in 1..Len(devices') :
              conns'[devices'[i].val.socketId].role = "device"
      ]_vars

\* a controller has just connected while a device that declared no name is
\* registered: the registry holds that one entry, under the placeholder name
C19_Witness ==
    /\ last.op = "connection" /\ last.arg.type = "admin"
    /\ conns[last.conn].role = "admin"
    /\ Len(devices) = 1
    /\ MapHas(devices, "d1")
    /\ MapGet(devices, "d1").name = "Unknown Device"
    /\ EntriesOf(last.conn) = {}

\* ----------------------------------------------------------------- C20
\* C20: a webrtc_ice_candidate whose payload (parsed when it came as text)
\* has a targetId that is registered yields exactly one webrtc_ice_candidate,
\* to the connection registered for that id only, whose data is the candidate
\* member as a string (itself when it is a string, its JSON text otherwise);
\* one whose payload has no targetId yields one webrtc_ice_candidate carrying
\* the data as received, to every open connection except the sender.
C20_IceRouting ==
    (last.op = "webrtc_ice_candidate" /\ ~crashed) =>
        LET payload   == IcePayload(last.arg)
            targetId  == Field(payload, "targetId")
            candidate == Field(payload, "candidate")
        IN  /\ ( /\ targetId.kind = "string"
                 /\ MapHas(devices, IdOf(targetId))
                 /\ candidate.kind # "undefined" ) =>
                  sent = <<Emission("webrtc_ice_candidate",
                                    IF candidate.kind = "string" THEN candidate
                                    ELSE JSONstringify(candidate),
                                    {MapGet(devices, IdOf(targetId)).socketId})>>
            /\ targetId.kind = "undefined" =>
                  sent = <<Emission("webrtc_ice_candidate", last.arg,
                                    OpenConns \ {last.conn})>>

\* ----------------------------------------------------------------- C21
\* what the webrtc_offer handler emits for data received from socket c in
\* the current registry (nothing when it throws)
OfferSent(c, data) ==
    LET parsed == IF data.kind = "string" THEN JSONparse(data) ELSE ParseOk(data, 0)
    IN  IF ~parsed.ok \/ ThrowsOnAccess(parsed.val) THEN <<>>
        ELSE RouteOffer(c, data, parsed.val)

Recipients(s) == UNION {s[i].to : i \in 1..Len(s)}

\* the same payload in the other encoding: the JSON text of an object, the
\* object of a JSON text
OtherEncoding(data) ==
    IF data.kind = "string" THEN JSONparse(data).val ELSE JSONstringify(data)

\* C21: after a webrtc_offer whose payload is an object P, sent raw or as its
\* JSON text, the handler run on the other encoding of P in the same registry
\* reaches the same recipients; when P.targetId is registered both runs emit
\* the same single webrtc_offer, to the target's connection, carrying the JSON
\* text of P.offer (of P when it has no offer); when P has no targetId the
\* offer goes, as received, to every open connection except the sender.
C21_OfferEitherEncoding ==
    (last.op = "webrtc_offer" /\ SignalObject(last.arg).kind = "object") =>
        LET P        == SignalObject(last.arg)
            other    == OfferSent(last.conn, OtherEncoding(last.arg))
            targetId == Field(P, "targetId")
            offer    == Field(P, "offer")
        IN  /\ ~crashed
            /\ SignalObject(OtherEncoding(last.arg)) = P
            /\ Recipients(other) = Recipients(sent)
            /\ (targetId.kind = "string" /\ MapHas(devices, IdOf(targetId))) =>
                  /\ other = sent
                  /\ sent = <<Emission("webrtc_offer",
                                JSONstringify(IF JTruthy(offer) THEN offer ELSE P),
                                {MapGet(devices, IdOf(targetId)).socketId})>>
            /\ targetId.kind = "undefined" =>
                  /\ sent = <<Emission("webrtc_offer", last.arg,
                                       OpenConns \ {last.conn})>>
                  /\ Len(other) = 1 /\ other[1].to = OpenConns \ {last.conn}

\* ----------------------------------------------------------------- C22
RelayEvents == {"webrtc_answer", "camera_ready", "current_config", "storage_stats"}

\* C22: a webrtc_answer, camera_ready, current_config or storage_stats is
\* relayed as exactly one message of the same name carrying the payload as
\* received, to every open connection except the sender and not to the
\* sender, whether or not the payload has a targetId.
C22_BroadcastToOthers ==
    last.op \in RelayEvents =>
        /\ ~crashed
        /\ sent = <<Emission(last.op, last.arg, OpenConns \ {last.conn})>>
        /\ DeliveredAny(last.conn) = 0
        /\ \A r \in OpenConns \ {last.conn} : DeliveredCount(r, last.op) = 1

\* a device answers with a payload naming the registered d1 as target: the
\* answer reaches both other connections, a controller among them
C22_Witness ==
    /\ last.op = "webrtc_answer"
    /\ IdOf(Field(last.arg, "targetId")) = "d1"
    /\ MapHas(devices, "d1")
    /\ Cardinality(OpenConns) = 3
    /\ Controllers # {}
    /\ \A r \in OpenConns \ {last.conn} : DeliveredCount(r, "webrtc_answer") = 1
    /\ last.conn # MapGet(devices, "d1").socketId

\* ----------------------------------------------------------------- C23
\* C23 as stated: every permission_report is delivered to all open
\* connections, the sender included, wrapped with the device id the sender
\* declared; every log goes to all open connections, the sender included, as
\* server_log prefixed with the sender's device id when the sender is the
\* registered connection of a device and with 'unknown' when it is not.
C23_BroadcastToAllAlways ==
    /\ last.op = "permission_report" =>
          sent = <<Emission("permission_report",
                            [deviceId |-> conns[last.conn].deviceId,
                             report |-> last.arg],
                            OpenConns)>>
    /\ last.op = "log" =>
          sent = <<Emission("server_log",
                            <<"[",
                              IF \E i \in 1..Len(devices) :
                                     devices[i].val.socketId = last.conn
                              THEN conns[last.conn].deviceId ELSE "unknown",
                              "] ", last.arg>>,
                            OpenConns)>>

\* C23 (amended): a permission_report is relayed exactly when the sender is
\* the connection currently registered under a non-empty device id; it then
\* goes once to every open connection, the sender included, wrapped as
\* {deviceId: that id, report: payload}; otherwise nothing is sent. A log
\* always goes once to every open connection, the sender included, as
\* server_log, prefixed with that id for such a sender and with 'unknown'
\* for every other sender.
C23_BroadcastToAll ==
    /\ last.op = "permission_report" =>
          IF RegisteredSender(last.conn)
          THEN /\ last.conn \in OpenConns
               /\ sent = <<Emission("permission_report",
                                    [deviceId |-> conns[last.conn].deviceId,
                                     report |-> last.arg],
                                    OpenConns)>>
          ELSE sent = <<>>
    /\ last.op = "log" =>
          /\ last.conn \in OpenConns
          /\ sent = <<Emission("server_log",
                               <<"[",
                                 IF RegisteredSender(last.conn)
                                 THEN conns[last.conn].deviceId ELSE "unknown",
                                 "] ", last.arg>>,
                               OpenConns)>>

\* the registered d1 has reported its permissions while a controller and
\* another connection are open: all three got the report, wrapped with d1
C23_Witness ==
    /\ last.op = "permission_report"
    /\ RegisteredSender(last.conn) /\ conns[last.conn].deviceId = "d1"
    /\ Cardinality(OpenConns) = 3 /\ Controllers # {}
    /\ \A r \in OpenConns : DeliveredCount(r, "permission_report") = 1
    /\ sent[1].data = [deviceId |-> "d1", report |-> "report"]

\* ----------------------------------------------------------------- C24
\* packets of one origin connection appear on a socket in the order the
\* origin sent the events that produced them
InSendOrder(log) ==
    \A i, j \in 1..Len(log) :
        (i < j /\ log[i].from = log[j].from) => log[i].seq < log[j].seq

NoTargetSupplied(e) ==
    IF e.op = "update_config"
    THEN e.arg.kind = "object" /\ e.arg.targetId = Undefined
    ELSE e.arg = Undefined

\* the emissions that put a packet on at least one socket
Packets(s) == SelectSeq(s, LAMBDA m : m.to # {})

\* C25: for every command event the legacy server handles, sent without a
\* target id, the registry-based router emits exactly what the legacy server
\* emits in the same situation: the same event with the same data to every
\* open connection except the sender.
C25_LegacyCompatible ==
    (last.op \in DOMAIN LegacyTable /\ NoTargetSupplied(last)) =>
        /\ ~crashed
        /\ Packets(sent) = Packets(LegacyRoute(last.conn, last.op, last.arg))

\* ----------------------------------------------------------------- C26
\* the entry without its lastSeen field
Registration(e) ==
    [key |-> e.key, socketId |-> e.val.socketId, name |-> e.val.name,
     connectedAt |-> e.val.connectedAt]

\* C26: a heartbeat leaves the registry as it was except for lastSeen of the
\* entry that points at the sender; connectedAt of a key changes only in the
\* step that registers a device under that key; an entry just registered has
\* no lastSeen, and the lastSeen of an entry changes only in a heartbeat from
\* the connection the entry points at.
C26_EntryMetadataFrame ==
    [][ /\ last'.op = "heartbeat" =>
              /\ Len(devices') = Len(devices)
              /\ \A i \in 1..Len(devices) :
                    /\ Registration(devices'[i]) = Registration(devices[i])
                    /\ devices'[i].val.lastSeen # devices[i].val.lastSeen =>
                          /\ devices[i].val.socketId = last'.conn
                          /\ devices'[i].val.lastSeen = now
        /\ \A d \in DeviceIds :
              (MapHas(devices, d) /\ MapHas(devices', d)) =>
                  /\ MapGet(devices', d).connectedAt # MapGet(devices, d).connectedAt =>
                        /\ last'.op = "connection" /\ last'.arg.type = "device"
                        /\ last'.arg.deviceId = d
                  /\ ( /\ MapGet(devices', d).socketId = MapGet(devices, d).socketId
                       /\ MapGet(devices', d).lastSeen # MapGet(devices, d).lastSeen ) =>
                        /\ last'.op = "heartbeat"
                        /\ last'.conn = MapGet(devices, d).socketId
        /\ (last'.op = "connection" /\ last'.arg.type = "device") =>
              /\ MapGet(devices', last'.arg.deviceId).lastSeen = NoTime
              /\ MapGet(devices', last'.arg.deviceId).connectedAt = now
      ]_vars

\* d1 was registered again by a second connection when the clock had
\* advanced, and that connection has just sent its first heartbeat; d2 has
\* never sent one
C26_Witness ==
    /\ last.op = "heartbeat"
    /\ Cardinality(Declaring("d1")) = 2
    /\ MapHas(devices, "d1") /\ MapHas(devices, "d2")
    /\ MapGet(devices, "d1").socketId = last.conn
    /\ MapGet(devices, "d1").connectedAt = MaxTime
    /\ MapGet(devices, "d1").lastSeen = now
    /\ MapGet(devices, "d2").lastSeen = NoTime

\* ----------------------------------------------------------------- C27
AttributedOps == {"audio_stream", "video_frame", "permission_report"}

\* the registry holds, under the id c declared, an entry that points at c
OwnEntry(c) ==
    /\ conns[c].role = "device"
    /\ \E i \in 1..Len(devices) :
          devices[i].key = conns[c].deviceId /\ devices[i].val.socketId = c

\* C27: every audio_data, video_data and permission_report emitted carries
\* the device id the sending connection declared when it connected; the
\* reverse lookup of an open connection returns the id that connection
\* declared, or not-found, and it returns not-found for a controller and for
\* a device connection whose entry was replaced or removed.
C27_Attribution ==
    /\ last.op \in AttributedOps =>
          \A i \in 1..Len(sent) :
              /\ sent[i].data.deviceId = conns[last.conn].deviceId
              /\ conns[last.conn].role = "device"
    /\ \A c \in OpenConns :
          /\ getDeviceIdBySocketId(c) # Null =>
                (OwnEntry(c) /\ getDeviceIdBySocketId(c) = conns[c].deviceId)
          /\ ~OwnEntry(c) => getDeviceIdBySocketId(c) = Null

\* d2, registered after d1, has reported its permissions: the report went
\* out under d2, while an older connection that declared d1 and lost its
\* entry to a newer one is looked up as not found
C27_Witness ==
    /\ last.op = "permission_report"
    /\ Len(devices) = 2 /\ devices[1].key = "d1"
    /\ conns[last.conn].deviceId = "d2"
    /\ Len(sent) = 1 /\ sent[1].data.deviceId = "d2"
    /\ sent[1].to = OpenConns
    /\ \E c \in Declaring("d1") :
          ~OwnEntry(c) /\ getDeviceIdBySocketId(c) = Null

\* ----------------------------------------------------------------- C28
\* C28: the connection of every registry entry connected as a device and
\* declared the id the entry is keyed under; so sendToDevice, for whatever
\* id, reaches at most one connection and never a controller, and so does
\* every command or update_config that is routed through it.
C28_EntryOwner ==
    /\ \A i \in 1..Len(devices) :
          /\ conns[devices[i].val.socketId].role = "device"
          /\ conns[devices[i].val.socketId].deviceId = devices[i].key
    /\ \A d \in DeviceIds :
          /\ Cardinality(Recipients(sendToDevice(d, "GET_STATUS", Undefined))) <= 1
          /\ Recipients(sendToDevice(d, "GET_STATUS", Undefined)) \cap Controllers = {}
          /\ UnicastTo(d) =>
                /\ Cardinality(Recipients(sent)) <= 1
                /\ Recipients(sent) \cap Controllers = {}
                /\ Recipients(sent) \subseteq Declaring(d)

\* a controller has sent a command for d1 while two open connections
\* declare d1: one of them got it, the other and the controller did not
C28_Witness ==
    /\ last.op = "start_monitoring" /\ last.arg = "d1"
    /\ conns[last.conn].role = "admin"
    /\ Cardinality(Declaring("d1")) = 2
    /\ Cardinality(Recipients(sent)) = 1
    /\ Recipients(sent) \subseteq Declaring("d1")

\* ----------------------------------------------------------------- C29
RosterEmitted(s) == \E i \in 1..Len(s) : s[i].event = "device_list_update"

\* C29: every device_list_update carries the registry as it is when the
\* handler emits it; a step that adds or removes a key emits one; and between
\* two handler runs the roster last received by every open dashboard has the
\* keys of the registry.
C29_RosterConsistency ==
    [][ /\ \A i \in 1..Len(sent') :
              sent'[i].event = "device_list_update" =>
                  sent'[i].data = Entries(devices')
        /\ Keys(devices') # Keys(devices) => RosterEmitted(sent')
        /\ last' = IdleLast =>
              \A c \in Controllers' :
                  /\ dashboard'[c] # NoRoster
                  /\ Keys(dashboard'[c]) = Keys(devices')
      ]_vars

\* between two handler runs a dashboard shows both registered devices, its
\* roster being older than the last heartbeat: same keys, other lastSeen
C29_Witness ==
    /\ last = IdleLast
    /\ Len(devices) = 2
    /\ \E c \in Controllers :
          /\ dashboard[c] # Entries(devices)
          /\ Len(dashboard[c]) = 2
          /\ Keys(dashboard[c]) = Keys(devices)

====
